---------------------------- MODULE Spec2Model ----------------------------
(* A model of the lecture's iterator examples (src/src/iterators.rs):      *)
(*   - SongUserProfile / SongIterator: a dedicated iterator object holding *)
(*     a shared borrow of the profile and a cursor current_song_index;     *)
(*   - sum_squares_lt: a lazy chain (0..).map(x*x).take_while(<n).sum().   *)
(*   - all_below, pad_truncate (src/src/iterators.rs) and add_1_to_each,   *)
(*     do_for_each, get_last_1, get_last_3 (src/src/closures.rs): functions *)
(*     over a Vec<usize> or a slice.                                        *)
EXTENDS Integers, Sequences, FiniteSets, TLC

(***************************************************************************)
(* Bounds of the model.                                                    *)
(***************************************************************************)
\* longest liked_songs list explored
MaxLen == 3
\* number of SongIterator values that get_iter may hand out
NumAdapters == 2
\* calls to next() explored after an adapter has returned its last element
MaxExtraCalls == 2
\* width of usize in the model (scaled down from 64 so that TLC can
\* enumerate every n and reach the overflow cases)
UsizeBits == 6
\* longest Vec<usize> passed to the vector functions
MaxVecLen == 3
\* how far target_length may exceed the longest vector
MaxPad == 2

\* the song names that may appear in liked_songs
SongNames == {"a", "b"}

Adapters == 1..NumAdapters

VARIABLES
    liked_songs,        \* SongUserProfile.liked_songs : Vec<SongName>
    created,            \* created[i]: get_iter has returned adapter i
    current_song_index, \* SongIterator.current_song_index of adapter i
    result,             \* what the latest next() on adapter i returned
    calls,              \* number of next() calls made on adapter i
    yielded,            \* the values adapter i returned inside Some, in order
    reads,              \* the indices at which adapter i indexed liked_songs
    overflow_checks,    \* build profile: TRUE = debug (overflow panics)
    sq_n,               \* sum_squares_lt: the argument n
    sq_x,               \* sum_squares_lt: RangeFrom.start of (0..)
    sq_acc,             \* sum_squares_lt: accumulator of .sum()
    sq_pc               \* sum_squares_lt: "idle" | "run" | "done" | "panic"

iterVars == <<liked_songs, created, current_song_index, result, calls,
              yielded, reads>>
sumVars == <<overflow_checks, sq_n, sq_x, sq_acc, sq_pc>>

VARIABLES
    call,           \* which function is under call: "idle" | "all_below" |
                    \*   "add_1" | "pad_truncate" | "get_last"
    v_in,           \* the argument v as passed by the caller
    thresh,         \* all_below: the argument thresh
    target_length,  \* pad_truncate: the argument target_length
    ab,             \* all_below: [k: elements consumed by all(), ret, pc]
                    \*   (ret: NotReturned or Returned(value))
    a1,             \* add_1_to_each: [v: the vector behind &mut, k, pc]
    d1,             \* add_1_to_each_using_do_for_each: [v, k, pc]
    pt,             \* pad_truncate: [result, n: left in take(), k: pulled
                    \*   from the chain, pc]
    gl1,            \* get_last_1: [ret, stdout, pc]
    gl3             \* get_last_3: [ret, stdout, pc]

vecVars == <<call, v_in, thresh, target_length, ab, a1, d1, pt, gl1, gl3>>

vars == <<liked_songs, created, current_song_index, result, calls,
          yielded, reads, overflow_checks, sq_n, sq_x, sq_acc, sq_pc,
          call, v_in, thresh, target_length, ab, a1, d1, pt, gl1, gl3>>

\* the return value of a call: none yet, or the value returned
NotReturned == [tag |-> "NotReturned"]
Returned(x) == [tag |-> "Returned", val |-> x]

\* no vector function is under call
VecIdle ==
    /\ call = "idle"
    /\ v_in = <<>>
    /\ thresh = 0
    /\ target_length = 0
    /\ ab = [k |-> 0, ret |-> NotReturned, pc |-> "idle"]
    /\ a1 = [v |-> <<>>, k |-> 0, pc |-> "idle"]
    /\ d1 = [v |-> <<>>, k |-> 0, pc |-> "idle"]
    /\ pt = [result |-> <<>>, n |-> 0, k |-> 0, pc |-> "idle"]
    /\ gl1 = [ret |-> NotReturned, stdout |-> <<>>, pc |-> "idle"]
    /\ gl3 = [ret |-> NotReturned, stdout |-> <<>>, pc |-> "idle"]

(***************************************************************************)
(* Option<SongName> and the outcomes of a call.                            *)
(***************************************************************************)
None == [tag |-> "None"]
Some(v) == [tag |-> "Some", val |-> v]
\* the index-out-of-bounds panic of Vec's checked indexing
Panic == [tag |-> "Panic"]
\* no call to next() has been made yet on this adapter
NoCall == [tag |-> "NoCall"]

\* #[derive(Clone)] on SongName(String): the clone is an equal, separate value
Clone(s) == s

\* all Vec<SongName> values of length at most n
SongLists(n) == UNION {[1..k -> SongNames] : k \in 0..n}

(***************************************************************************)
(* SongIterator::next as a function of the borrowed list and the cursor.   *)
(* idx is the 0-based Rust index; TLA+ sequences are 1-based.              *)
(* `at` is the index used to read liked_songs (-1: no read).               *)
(***************************************************************************)
\* fault variant: the cursor is not advanced after a read
SongIteratorNextStuck(songs, idx) ==
    IF idx = Len(songs)
    THEN [current_song_index |-> idx, ret |-> None, at |-> -1]
    ELSE IF idx < Len(songs)
    THEN [current_song_index |-> idx,
          ret |-> Some(Clone(songs[idx + 1])), at |-> idx]
    ELSE [current_song_index |-> idx, ret |-> Panic, at |-> idx]

\* fault variant: a cursor beyond the end is clamped to the last element
\* instead of being rejected by the checked index
SongIteratorNextClamped(songs, idx) ==
    IF idx = Len(songs)
    THEN [current_song_index |-> idx, ret |-> None, at |-> -1]
    ELSE IF idx < Len(songs)
    THEN [current_song_index |-> idx + 1,
          ret |-> Some(Clone(songs[idx + 1])), at |-> idx]
    ELSE IF Len(songs) > 0
    THEN [current_song_index |-> idx + 1,
          ret |-> Some(Clone(songs[Len(songs)])), at |-> Len(songs) - 1]
    ELSE [current_song_index |-> idx, ret |-> None, at |-> -1]

\* fault variant: the cursor is advanced before the read
SongIteratorNextSkipFirst(songs, idx) ==
    IF idx = Len(songs)
    THEN [current_song_index |-> idx, ret |-> None, at |-> -1]
    ELSE IF idx + 1 < Len(songs)
    THEN [current_song_index |-> idx + 1,
          ret |-> Some(Clone(songs[idx + 2])), at |-> idx + 1]
    ELSE [current_song_index |-> idx + 1, ret |-> Panic, at |-> idx + 1]

\* fault variant: the end test compares against len + 1
SongIteratorNextOffEnd(songs, idx) ==
    IF idx = Len(songs) + 1
    THEN [current_song_index |-> idx, ret |-> None, at |-> -1]
    ELSE IF idx < Len(songs)
    THEN [current_song_index |-> idx + 1,
          ret |-> Some(Clone(songs[idx + 1])), at |-> idx]
    ELSE [current_song_index |-> idx + 1, ret |-> Panic, at |-> idx]

\* fault variant: the traversal restarts at the end (the .cycle() idea of
\* play_songs applied to the adapter)
SongIteratorNextCycle(songs, idx) ==
    IF idx = Len(songs)
    THEN IF Len(songs) = 0
         THEN [current_song_index |-> idx, ret |-> None, at |-> -1]
         ELSE [current_song_index |-> 1,
               ret |-> Some(Clone(songs[1])), at |-> 0]
    ELSE IF idx < Len(songs)
    THEN [current_song_index |-> idx + 1,
          ret |-> Some(Clone(songs[idx + 1])), at |-> idx]
    ELSE [current_song_index |-> idx, ret |-> Panic, at |-> idx]

\* fault variant: the cursor is advanced by 2
SongIteratorNextDouble(songs, idx) ==
    IF idx = Len(songs)
    THEN [current_song_index |-> idx, ret |-> None, at |-> -1]
    ELSE IF idx < Len(songs)
    THEN [current_song_index |-> IF idx + 2 <= Len(songs) THEN idx + 2
                                 ELSE Len(songs),
          ret |-> Some(Clone(songs[idx + 1])), at |-> idx]
    ELSE [current_song_index |-> idx, ret |-> Panic, at |-> idx]

\* SongIterator::next as written
SongIteratorNext(songs, idx) ==
    IF idx = Len(songs)
    THEN [current_song_index |-> idx, ret |-> None, at |-> -1]
    ELSE IF idx < Len(songs)
    THEN [current_song_index |-> idx + 1,
          ret |-> Some(Clone(songs[idx + 1])), at |-> idx]
    ELSE [current_song_index |-> idx, ret |-> Panic, at |-> idx]

(***************************************************************************)
(* SongUserProfile::get_iter: a new adapter borrowing the profile,         *)
(* positioned at index 0.  Slot i is the identity of the adapter value.    *)
(***************************************************************************)
\* fault variant: the cursor is shared by all adapters of the profile
GetIterSharedCursor(i) ==
    /\ ~created[i]
    /\ created' = [created EXCEPT ![i] = TRUE]
    /\ current_song_index' = [j \in Adapters |-> 0]
    /\ result' = [result EXCEPT ![i] = NoCall]
    /\ calls' = [calls EXCEPT ![i] = 0]
    /\ yielded' = [yielded EXCEPT ![i] = <<>>]
    /\ reads' = [reads EXCEPT ![i] = <<>>]
    /\ UNCHANGED liked_songs
    /\ UNCHANGED sumVars
    /\ UNCHANGED vecVars

\* SongUserProfile::get_iter as written
GetIter(i) ==
    /\ ~created[i]
    /\ created' = [created EXCEPT ![i] = TRUE]
    /\ current_song_index' = [current_song_index EXCEPT ![i] = 0]
    /\ result' = [result EXCEPT ![i] = NoCall]
    /\ calls' = [calls EXCEPT ![i] = 0]
    /\ yielded' = [yielded EXCEPT ![i] = <<>>]
    /\ reads' = [reads EXCEPT ![i] = <<>>]
    /\ UNCHANGED liked_songs
    /\ UNCHANGED sumVars
    /\ UNCHANGED vecVars

(***************************************************************************)
(* One call of next() on adapter i.  A panicked call unwinds: the adapter  *)
(* is not called again.                                                    *)
(***************************************************************************)
\* fault variant: next() takes the front element out of liked_songs
IterNextDraining(i) ==
    /\ created[i]
    /\ result[i] # Panic
    /\ calls[i] < Len(liked_songs) + MaxExtraCalls
    /\ LET r == SongIteratorNext(liked_songs, 0)
       IN /\ current_song_index' = [current_song_index EXCEPT ![i] = 0]
          /\ result' = [result EXCEPT ![i] = r.ret]
          /\ yielded' = [yielded EXCEPT ![i] =
                IF r.ret.tag = "Some" THEN Append(@, r.ret.val) ELSE @]
          /\ reads' = [reads EXCEPT ![i] =
                IF r.at >= 0 THEN Append(@, r.at) ELSE @]
          /\ liked_songs' = IF liked_songs = <<>> THEN liked_songs
                            ELSE Tail(liked_songs)
    /\ calls' = [calls EXCEPT ![i] = @ + 1]
    /\ UNCHANGED created
    /\ UNCHANGED sumVars
    /\ UNCHANGED vecVars

\* a call of SongIterator::next as written
IterNext(i) ==
    /\ created[i]
    /\ result[i] # Panic
    /\ calls[i] < Len(liked_songs) + MaxExtraCalls
    /\ LET r == SongIteratorNext(liked_songs, current_song_index[i])
       IN /\ current_song_index' =
                [current_song_index EXCEPT ![i] = r.current_song_index]
          /\ result' = [result EXCEPT ![i] = r.ret]
          /\ yielded' = [yielded EXCEPT ![i] =
                IF r.ret.tag = "Some" THEN Append(@, r.ret.val) ELSE @]
          /\ reads' = [reads EXCEPT ![i] =
                IF r.at >= 0 THEN Append(@, r.at) ELSE @]
    /\ calls' = [calls EXCEPT ![i] = @ + 1]
    /\ UNCHANGED <<liked_songs, created>>
    /\ UNCHANGED sumVars
    /\ UNCHANGED vecVars

(***************************************************************************)
(* The profile is built with some liked_songs list; no adapter exists yet. *)
(***************************************************************************)
SumIdle ==
    /\ overflow_checks = TRUE
    /\ sq_n = 0
    /\ sq_x = 0
    /\ sq_acc = 0
    /\ sq_pc = "idle"

Init ==
    /\ liked_songs \in SongLists(MaxLen)
    /\ created = [i \in Adapters |-> FALSE]
    /\ current_song_index = [i \in Adapters |-> 0]
    /\ result = [i \in Adapters |-> NoCall]
    /\ calls = [i \in Adapters |-> 0]
    /\ yielded = [i \in Adapters |-> <<>>]
    /\ reads = [i \in Adapters |-> <<>>]
    /\ SumIdle
    /\ VecIdle

Next ==
    \/ \E i \in Adapters : GetIter(i)
    \/ \E i \in Adapters : IterNext(i)

Spec == Init /\ [][Next]_vars

\* A caller that loops on next() until it gets None (the loop of
\* example_iter_explicit1) keeps calling: every adapter's next() is
\* weakly fair.
LiveSpec == Init /\ [][Next]_vars /\ \A i \in Adapters : WF_vars(IterNext(i))


(***************************************************************************)
(* sum_squares_lt(n) = (0..).map(|x| x * x).take_while(|&x| x < n).sum()   *)
(* over usize.  The chain is lazy: one step pulls one element through      *)
(* RangeFrom::next, map, take_while and the fold of sum.  Arithmetic that  *)
(* leaves the usize range panics when the build has overflow checks        *)
(* (debug) and wraps when it has none (release).                           *)
(***************************************************************************)
RECURSIVE Pow2(_)
Pow2(k) == IF k = 0 THEN 1 ELSE 2 * Pow2(k - 1)

\* usize::MAX
UsizeMax == Pow2(UsizeBits) - 1

\* wrapping arithmetic of a build without overflow checks
Wrap(v) == v % (UsizeMax + 1)

\* fault variant: a square equal to n is kept
TakeWhilePredLe(x, n) == x <= n

\* the predicate of take_while: |&x| x < n
TakeWhilePred(x, n) == x < n

\* the closure of map: |x| x * x, before it is fitted into usize
MapSquare(x) == x * x

SumInit ==
    /\ overflow_checks \in BOOLEAN
    /\ sq_n \in 0..UsizeMax
    /\ sq_x = 0
    /\ sq_acc = 0
    /\ sq_pc = "run"

\* One element through the chain.
\*   RangeFrom::next yields start and stores start + 1 (Step::forward);
\*   map squares it; take_while ends the iteration at the first square
\*   that is not below n; sum adds the square to the accumulator.
SumSquaresStep ==
    /\ sq_pc = "run"
    /\ LET x == sq_x
           succ == x + 1
           sq == MapSquare(x)
           acc == sq_acc + Wrap(sq)
       IN IF succ > UsizeMax /\ overflow_checks
          THEN /\ sq_pc' = "panic"
               /\ UNCHANGED <<sq_x, sq_acc>>
          ELSE IF sq > UsizeMax /\ overflow_checks
          THEN /\ sq_pc' = "panic"
               /\ sq_x' = Wrap(succ)
               /\ UNCHANGED sq_acc
          ELSE IF ~TakeWhilePred(Wrap(sq), sq_n)
          THEN /\ sq_pc' = "done"
               /\ sq_x' = Wrap(succ)
               /\ UNCHANGED sq_acc
          ELSE IF acc > UsizeMax /\ overflow_checks
          THEN /\ sq_pc' = "panic"
               /\ sq_x' = Wrap(succ)
               /\ UNCHANGED sq_acc
          ELSE /\ sq_pc' = "run"
               /\ sq_x' = Wrap(succ)
               /\ sq_acc' = Wrap(acc)
    /\ UNCHANGED <<overflow_checks, sq_n>>
    /\ UNCHANGED iterVars
    /\ UNCHANGED vecVars

\* sum_squares_lt is called on its own: no profile, no adapter
IterIdle ==
    /\ liked_songs = <<>>
    /\ created = [i \in Adapters |-> FALSE]
    /\ current_song_index = [i \in Adapters |-> 0]
    /\ result = [i \in Adapters |-> NoCall]
    /\ calls = [i \in Adapters |-> 0]
    /\ yielded = [i \in Adapters |-> <<>>]
    /\ reads = [i \in Adapters |-> <<>>]

InitSum == IterIdle /\ SumInit /\ VecIdle

NextSum == SumSquaresStep

SpecSum == InitSum /\ [][NextSum]_vars

(***************************************************************************)
(* The functions over a Vec<usize> or a slice.  One of them is called on   *)
(* an input v; a loop or an iterator chain advances one element per step.  *)
(***************************************************************************)
\* the usize values that occur as elements: small ones and usize::MAX
VecElems == {0, 1, 2, UsizeMax}

\* all Vec<usize> values of length at most n
Vecs(n) == UNION {[1..k -> VecElems] : k \in 0..n}

\* the thresholds passed to all_below
Thresholds == {0, 1, 2, 3, UsizeMax}

\* fault variant: an element equal to thresh passes
AllBelowPredLe(ele, t) == ele <= t

\* the closure of all(): |&ele| ele < thresh
AllBelowPred(ele, t) == ele < t

\* all_below: v.iter().all(..) pulls one element; all() stops with false
\* at the first element that fails the closure and returns true when the
\* iterator is exhausted.
AllBelowStep ==
    /\ call = "all_below"
    /\ ab.pc = "run"
    /\ ab' = IF ab.k = Len(v_in)
             THEN [ab EXCEPT !.ret = Returned(TRUE), !.pc = "done"]
             ELSE IF AllBelowPred(v_in[ab.k + 1], thresh)
             THEN [ab EXCEPT !.k = @ + 1]
             ELSE [ab EXCEPT !.k = @ + 1, !.ret = Returned(FALSE),
                             !.pc = "done"]
    /\ UNCHANGED <<call, v_in, thresh, target_length, a1, d1, pt, gl1, gl3>>
    /\ UNCHANGED iterVars
    /\ UNCHANGED sumVars

\* `*x += 1` on a usize: beyond usize::MAX it panics in a build with
\* overflow checks and wraps in one without
PlusAssign1(x) ==
    IF x + 1 > UsizeMax /\ overflow_checks THEN Panic ELSE Some(Wrap(x + 1))

\* add_1_to_each: the body of `for x in v.iter_mut()`
Add1ToEachStep ==
    /\ call = "add_1"
    /\ a1.pc = "run"
    /\ a1' = IF a1.k = Len(a1.v)
             THEN [a1 EXCEPT !.pc = "done"]
             ELSE LET r == PlusAssign1(a1.v[a1.k + 1])
                  IN IF r = Panic
                     THEN [a1 EXCEPT !.pc = "panic"]
                     ELSE [a1 EXCEPT !.v[a1.k + 1] = r.val, !.k = @ + 1]
    /\ UNCHANGED <<call, v_in, thresh, target_length, ab, d1, pt, gl1, gl3>>
    /\ UNCHANGED iterVars
    /\ UNCHANGED sumVars

\* fault variant: the closure adds 2
CallClosureAdd2(f, x) ==
    IF f = "add_1"
    THEN IF x + 2 > UsizeMax /\ overflow_checks THEN Panic
         ELSE Some(Wrap(x + 2))
    ELSE Some(0)

\* f(x) for the closures passed to do_for_each:
\*   "add_1": |x| *x += 1         (add_1_to_each_using_do_for_each)
\*   "zero":  |x| { ...; *x = 0 } (zero_rest_each_using_do_for_each)
CallClosure(f, x) ==
    IF f = "add_1" THEN PlusAssign1(x) ELSE Some(0)

\* do_for_each(v, f): the body of `for x in v.iter_mut() { f(x) }`
DoForEachStep(f) ==
    /\ d1.pc = "run"
    /\ d1' = IF d1.k = Len(d1.v)
             THEN [d1 EXCEPT !.pc = "done"]
             ELSE LET r == CallClosure(f, d1.v[d1.k + 1])
                  IN IF r = Panic
                     THEN [d1 EXCEPT !.pc = "panic"]
                     ELSE [d1 EXCEPT !.v[d1.k + 1] = r.val, !.k = @ + 1]

\* add_1_to_each_using_do_for_each: do_for_each(v, |x| *x += 1)
Add1UsingDoForEachStep ==
    /\ call = "add_1"
    /\ DoForEachStep("add_1")
    /\ UNCHANGED <<call, v_in, thresh, target_length, ab, a1, pt, gl1, gl3>>
    /\ UNCHANGED iterVars
    /\ UNCHANGED sumVars

\* fault variant: the chain ends with v (no repeat(0) chained on)
ChainNextNoRepeat(vec, k) ==
    IF k < Len(vec) THEN Some(vec[k + 1]) ELSE None

\* next() of v.iter().copied().chain(iter::repeat(0)) after k elements were
\* pulled: the elements of v in order, then 0 for ever (never None)
ChainNext(vec, k) ==
    IF k < Len(vec) THEN Some(vec[k + 1]) ELSE Some(0)

\* pad_truncate: collect() pulls one element through take(target_length);
\* take() counts down n and returns None at 0 without touching the chain.
\* When the iteration ends the debug build checks
\* debug_assert_eq!(result.len(), target_length).
PadTruncateStep ==
    /\ call = "pad_truncate"
    /\ pt.pc = "run"
    /\ LET r == IF pt.n = 0 THEN None ELSE ChainNext(v_in, pt.k)
       IN pt' = IF r = None
                THEN IF overflow_checks /\ Len(pt.result) # target_length
                     THEN [pt EXCEPT !.pc = "panic"]
                     ELSE [pt EXCEPT !.pc = "done"]
                ELSE [pt EXCEPT !.result = Append(@, r.val),
                                !.n = @ - 1, !.k = @ + 1]
    /\ UNCHANGED <<call, v_in, thresh, target_length, ab, a1, d1, gl1, gl3>>
    /\ UNCHANGED iterVars
    /\ UNCHANGED sumVars

\* v.last().copied()
Last(vec) == IF Len(vec) = 0 THEN None ELSE Some(vec[Len(vec)])

\* the two println! lines of the fallback block
WarningLines(vec) ==
    <<[text |-> "Warning: couldn't get last element of vec: {:?}",
       arg |-> vec],
      [text |-> "Returning 0 instead"]>>

\* get_last_1: unwrap_or({ println!..; println!..; 0 }): the block is an
\* argument expression, evaluated before unwrap_or is entered
GetLast1 ==
    /\ call = "get_last"
    /\ gl1.pc = "run"
    /\ LET opt == Last(v_in)
           out == gl1.stdout \o WarningLines(v_in)
           default == 0
       IN gl1' = [ret |-> Returned(IF opt = None THEN default ELSE opt.val),
                  stdout |-> out, pc |-> "done"]
    /\ UNCHANGED <<call, v_in, thresh, target_length, ab, a1, d1, pt, gl3>>
    /\ UNCHANGED iterVars
    /\ UNCHANGED sumVars

\* fault variant: the fallback of get_last_3 is evaluated eagerly
GetLast3Eager ==
    /\ call = "get_last"
    /\ gl3.pc = "run"
    /\ LET opt == Last(v_in)
           out == gl3.stdout \o WarningLines(v_in)
       IN gl3' = [ret |-> Returned(IF opt = None THEN 0 ELSE opt.val),
                  stdout |-> out, pc |-> "done"]
    /\ UNCHANGED <<call, v_in, thresh, target_length, ab, a1, d1, pt, gl1>>
    /\ UNCHANGED iterVars
    /\ UNCHANGED sumVars

\* get_last_3: unwrap_or_else(|| { println!..; println!..; 0 }): the
\* closure is called only when the Option is None
GetLast3 ==
    /\ call = "get_last"
    /\ gl3.pc = "run"
    /\ LET opt == Last(v_in)
       IN gl3' = IF opt = None
                 THEN [ret |-> Returned(0),
                       stdout |-> gl3.stdout \o WarningLines(v_in),
                       pc |-> "done"]
                 ELSE [ret |-> Returned(opt.val), stdout |-> gl3.stdout,
                       pc |-> "done"]
    /\ UNCHANGED <<call, v_in, thresh, target_length, ab, a1, d1, pt, gl1>>
    /\ UNCHANGED iterVars
    /\ UNCHANGED sumVars

\* the state in which a function's frame is when `call` selects it or not
Entry(c, names) == IF c \in names THEN "run" ELSE "idle"

\* One of the functions is called on a vector v; the two add_1 functions
\* and the two get_last functions are each called on their own copy of
\* the same input.
VecInit ==
    /\ call \in {"all_below", "add_1", "pad_truncate", "get_last"}
    /\ v_in \in Vecs(MaxVecLen)
    /\ thresh \in (IF call = "all_below" THEN Thresholds ELSE {0})
    /\ target_length \in (IF call = "pad_truncate"
                          THEN 0..(MaxVecLen + MaxPad) ELSE {0})
    /\ ab = [k |-> 0, ret |-> NotReturned, pc |-> Entry(call, {"all_below"})]
    /\ a1 = [v |-> IF call = "add_1" THEN v_in ELSE <<>>, k |-> 0,
             pc |-> Entry(call, {"add_1"})]
    /\ d1 = [v |-> IF call = "add_1" THEN v_in ELSE <<>>, k |-> 0,
             pc |-> Entry(call, {"add_1"})]
    /\ pt = [result |-> <<>>, n |-> target_length, k |-> 0,
             pc |-> Entry(call, {"pad_truncate"})]
    /\ gl1 = [ret |-> NotReturned, stdout |-> <<>>,
              pc |-> Entry(call, {"get_last"})]
    /\ gl3 = [ret |-> NotReturned, stdout |-> <<>>,
              pc |-> Entry(call, {"get_last"})]

InitVec ==
    /\ IterIdle
    /\ overflow_checks \in BOOLEAN
    /\ sq_n = 0
    /\ sq_x = 0
    /\ sq_acc = 0
    /\ sq_pc = "idle"
    /\ VecInit

NextVec ==
    \/ AllBelowStep
    \/ Add1ToEachStep
    \/ Add1UsingDoForEachStep
    \/ PadTruncateStep
    \/ GetLast1
    \/ GetLast3

SpecVec == InitVec /\ [][NextVec]_vars

\* A call that has been entered runs on: the loops and the collect() are
\* not suspended by anything
LiveSpecVec == InitVec /\ [][NextVec]_vars /\ WF_vars(NextVec)

(***************************************************************************)
(* Vocabulary of the properties.                                           *)
(***************************************************************************)
\* the step is a call of next() on adapter i
Called(i) == calls'[i] = calls[i] + 1

\* the step is the get_iter call that creates adapter i
Creates(i) == ~created[i] /\ created'[i]

Min(a, b) == IF a <= b THEN a ELSE b

\* the spec's two adapter states
AdapterState(songs, idx) ==
    IF idx < Len(songs) THEN "Active"
    ELSE IF idx = Len(songs) THEN "Exhausted"
    ELSE "Invalid"

\* C1: over a list of length n the k-th call of next() (1 <= k <= n)
\* returns Some(liked_songs[k-1]); the values returned so far are the
\* prefix of liked_songs of that length, read at indices 0, 1, ..., in
\* order, each once.
C1_YieldsInOrder ==
    \A i \in Adapters : created[i] =>
        LET k == Min(calls[i], Len(liked_songs))
        IN /\ yielded[i] = SubSeq(liked_songs, 1, k)
           /\ reads[i] = [j \in 1..k |-> j - 1]
           /\ (calls[i] \in 1..Len(liked_songs)
                 => result[i] = Some(liked_songs[calls[i]]))

C1_Witness ==
    \E i \in Adapters :
        /\ created[i]
        /\ Len(liked_songs) = MaxLen
        /\ liked_songs[1] # liked_songs[2]
        /\ calls[i] = Len(liked_songs)
        /\ yielded[i] = liked_songs

\* C2: once current_song_index equals the length, every later step leaves
\* it unchanged, and every later call of next() returns None (never an
\* element, never a panic) and yields nothing.
C2_ExhaustedStaysNone ==
    [][\A i \in Adapters :
         (created[i] /\ current_song_index[i] = Len(liked_songs)) =>
            /\ current_song_index'[i] = current_song_index[i]
            /\ Called(i) => (result'[i] = None /\ yielded'[i] = yielded[i])
      ]_vars

C2_Witness ==
    \E i \in Adapters :
        /\ created[i]
        /\ Len(liked_songs) >= 2
        /\ calls[i] = Len(liked_songs) + 2
        /\ result[i] = None
        /\ current_song_index[i] = Len(liked_songs)

\* C3: 0 <= current_song_index <= liked_songs.len() in every reachable
\* state, every index used to read liked_songs is below the length, and no
\* call panics.
C3_CursorInRange ==
    \A i \in Adapters : created[i] =>
        /\ current_song_index[i] \in 0..Len(liked_songs)
        /\ result[i] # Panic
        /\ \A k \in DOMAIN reads[i] :
              reads[i][k] >= 0 /\ reads[i][k] < Len(liked_songs)

C3_Witness ==
    \E i \in Adapters :
        /\ created[i]
        /\ Len(liked_songs) = MaxLen
        /\ current_song_index[i] = Len(liked_songs)
        /\ Len(reads[i]) = Len(liked_songs)
        /\ calls[i] > Len(liked_songs)

\* C4: two adapters over one profile are independent: a step of one
\* adapter (its creation or a call of next()) changes no field of another
\* existing adapter, and what an adapter has yielded depends only on the
\* list and on its own number of calls.
C4_AdaptersIndependent ==
    /\ [](\A j \in Adapters : created[j] =>
            /\ current_song_index[j] = Min(calls[j], Len(liked_songs))
            /\ yielded[j] = SubSeq(liked_songs, 1, current_song_index[j]))
    /\ [][\A i, j \in Adapters :
            (i # j /\ created[j] /\ (Called(i) \/ Creates(i))) =>
                /\ current_song_index'[j] = current_song_index[j]
                /\ yielded'[j] = yielded[j]
                /\ result'[j] = result[j]
                /\ calls'[j] = calls[j]
         ]_vars

C4_Witness ==
    \E i, j \in Adapters :
        /\ i # j
        /\ created[i] /\ created[j]
        /\ Len(liked_songs) = MaxLen
        /\ current_song_index[i] = Len(liked_songs)
        /\ current_song_index[j] = 1
        /\ yielded[i] = liked_songs
        /\ yielded[j] = <<liked_songs[1]>>

\* C5: get_iter returns an adapter at index 0 that has yielded nothing,
\* and no step (get_iter or next()) changes liked_songs.
C5_SourceUnmodified ==
    [][/\ liked_songs' = liked_songs
       /\ \A i \in Adapters : Creates(i) =>
             /\ current_song_index'[i] = 0
             /\ calls'[i] = 0
             /\ yielded'[i] = <<>>
             /\ reads'[i] = <<>>
      ]_vars

C5_Witness ==
    \E i, j \in Adapters :
        /\ created[i] /\ calls[i] = 0 /\ current_song_index[i] = 0
        /\ created[j] /\ calls[j] > Len(liked_songs)
        /\ Len(liked_songs) >= 2

\* C6: the adapter is always Active (index < length) or Exhausted
\* (index = length); it is created Active over a non-empty list and
\* Exhausted over an empty one; a call in Active returns Some and stays
\* Active while another element remains, and moves to Exhausted exactly
\* when it returns the last element; from Exhausted every step stays in
\* Exhausted and a call returns None.
C6_TwoStateMachine ==
    [][\A i \in Adapters :
         LET s == AdapterState(liked_songs, current_song_index[i])
             t == AdapterState(liked_songs', current_song_index'[i])
         IN /\ Creates(i) =>
                  t = IF Len(liked_songs) > 0 THEN "Active" ELSE "Exhausted"
            /\ created'[i] => t \in {"Active", "Exhausted"}
            /\ (created[i] /\ s = "Active" /\ Called(i)) =>
                  /\ result'[i].tag = "Some"
                  /\ t = IF current_song_index[i] + 1 < Len(liked_songs)
                         THEN "Active" ELSE "Exhausted"
                  /\ t = "Exhausted" =>
                        result'[i] = Some(liked_songs[Len(liked_songs)])
            /\ (created[i] /\ s = "Active" /\ ~Called(i)) => t = "Active"
            /\ (created[i] /\ s = "Exhausted") =>
                  /\ t = "Exhausted"
                  /\ Called(i) => result'[i] = None
      ]_vars

C6_Witness ==
    \E i \in Adapters :
        /\ created[i]
        /\ Len(liked_songs) >= 2
        /\ AdapterState(liked_songs, current_song_index[i]) = "Exhausted"
        /\ result[i] = Some(liked_songs[Len(liked_songs)])

\* C7: an existing adapter stays in existence and its index never
\* decreases; a call of next() that returns Some increases it by exactly
\* 1, a call that returns None leaves it unchanged, and no other step
\* changes it.
C7_ForwardOnly ==
    [][\A i \in Adapters : created[i] =>
         /\ created'[i]
         /\ current_song_index'[i] >= current_song_index[i]
         /\ (Called(i) /\ result'[i].tag = "Some") =>
               current_song_index'[i] = current_song_index[i] + 1
         /\ (Called(i) /\ result'[i] = None) =>
               current_song_index'[i] = current_song_index[i]
         /\ ~Called(i) => current_song_index'[i] = current_song_index[i]
      ]_vars

C7_Witness ==
    \E i \in Adapters :
        /\ created[i]
        /\ Len(liked_songs) >= 2
        /\ calls[i] = Len(liked_songs) + 1
        /\ current_song_index[i] = Len(liked_songs)
        /\ result[i] = None

\* C8: a caller that keeps calling next() on an adapter eventually gets
\* None, and at that point exactly n = liked_songs.len() calls have
\* returned Some.
C8_Terminates ==
    /\ \A i \in Adapters : created[i] ~> (created[i] /\ result[i] = None)
    /\ [](\A i \in Adapters : (created[i] /\ result[i] = None) =>
            /\ Len(yielded[i]) = Len(liked_songs)
            /\ calls[i] > Len(liked_songs))

C8_Witness ==
    \E i \in Adapters :
        /\ created[i]
        /\ result[i] = None
        /\ Len(liked_songs) = MaxLen
        /\ Len(yielded[i]) = MaxLen
        /\ calls[i] = MaxLen + 1

\* C9: next() never silently returns a wrong element.  For every cursor,
\* stale ones beyond the length included, it returns None only at the
\* length, Some only of the element at the cursor, and otherwise reports
\* the index-out-of-range panic; while an adapter borrows the profile no
\* step changes liked_songs; and an adapter that has returned None never
\* returns anything else afterwards.
C9_NoSilentWrongElement ==
    /\ [](\A idx \in 0..(MaxLen + 2) :
            LET r == SongIteratorNext(liked_songs, idx)
            IN /\ r.ret = None <=> idx = Len(liked_songs)
               /\ r.ret.tag = "Some" <=> idx < Len(liked_songs)
               /\ r.ret.tag = "Some" => r.ret.val = liked_songs[idx + 1]
               /\ r.ret = Panic <=> idx > Len(liked_songs))
    /\ [][/\ (\E i \in Adapters : created[i]) => liked_songs' = liked_songs
          /\ \A i \in Adapters :
                (created[i] /\ result[i] = None) => result'[i] = None
         ]_vars

C9_Witness ==
    \E i \in Adapters :
        /\ created[i]
        /\ Len(liked_songs) >= 1
        /\ result[i] = None
        /\ calls[i] = Len(liked_songs) + 2
        /\ SongIteratorNext(liked_songs, Len(liked_songs) + 1).ret = Panic

\* the mathematical sum of the squares x*x, x >= 0, that are below n
RECURSIVE SumOver(_)
SumOver(S) ==
    IF S = {} THEN 0
    ELSE LET v == CHOOSE v \in S : TRUE IN v + SumOver(S \ {v})

SumOfSquaresBelow(n) == SumOver({x * x : x \in {y \in 0..n : y * y < n}})

\* C10 as stated: for every n the call returns, and returns the sum of all
\* squares strictly below n.
C10_SumSquaresEveryN ==
    /\ sq_pc # "panic"
    /\ sq_pc = "done" => sq_acc = SumOfSquaresBelow(sq_n)

\* C10, amended: for every n whose sum of squares below n fits in usize,
\* the call does not panic, and when it returns it returns that sum; so
\* n = 0 and n = 1 give 0 and sum_squares_lt(4) = 1.
C10_SumSquaresWhenFits ==
    SumOfSquaresBelow(sq_n) <= UsizeMax =>
        /\ sq_pc # "panic"
        /\ sq_pc = "done" => sq_acc = SumOfSquaresBelow(sq_n)
        /\ sq_pc = "run" => sq_acc = SumOfSquaresBelow(Min(sq_x * sq_x, sq_n))
        /\ (sq_pc = "done" /\ sq_n \in {0, 1}) => sq_acc = 0
        /\ (sq_pc = "done" /\ sq_n = 4) => sq_acc = 1

C10_Witness ==
    /\ sq_pc = "done"
    /\ sq_n = 5
    /\ sq_acc = 1 + 4
    /\ SumOfSquaresBelow(sq_n) <= UsizeMax

\* C11: all_below(v, thresh) returns true exactly when every element of
\* v is strictly below thresh: an element equal to thresh gives false,
\* the empty vector gives true.
C11_AllBelowIffEveryBelow ==
    (call = "all_below" /\ ab.pc = "done") =>
        /\ ab.ret \in {Returned(TRUE), Returned(FALSE)}
        /\ ab.ret.val <=> (\A j \in 1..Len(v_in) : v_in[j] < thresh)
        /\ (\E j \in 1..Len(v_in) : v_in[j] = thresh) => ~ab.ret.val
        /\ Len(v_in) = 0 => ab.ret.val

C11_Witness ==
    /\ call = "all_below"
    /\ ab.pc = "done"
    /\ Len(v_in) = MaxVecLen
    /\ \A j \in 1..(Len(v_in) - 1) : v_in[j] < thresh
    /\ v_in[Len(v_in)] = thresh
    /\ ab.ret = Returned(FALSE)

\* what the two add_1 functions have in common, for every input: once
\* both have ended (returned or panicked) they have ended the same way and
\* left the same vector
Add1SameOutcome ==
    (a1.pc \in {"done", "panic"} /\ d1.pc \in {"done", "panic"}) =>
        (a1.pc = d1.pc /\ a1.v = d1.v)

\* the vector behind &mut while a loop over it has handled k elements:
\* same length, the first k elements one more than before, the rest as
\* they were
IncrementedUpTo(vec, k) ==
    /\ Len(vec) = Len(v_in)
    /\ \A j \in 1..Len(v_in) :
          vec[j] = IF j <= k THEN v_in[j] + 1 ELSE v_in[j]

\* C12 as stated: for every input vector add_1_to_each returns with the
\* same length and every element one more than before, and
\* add_1_to_each_using_do_for_each leaves the same final state.
C12_Add1EveryVector ==
    call = "add_1" =>
        /\ a1.pc # "panic" /\ d1.pc # "panic"
        /\ a1.pc = "done" => IncrementedUpTo(a1.v, Len(v_in))
        /\ d1.pc = "done" => IncrementedUpTo(d1.v, Len(v_in))
        /\ Add1SameOutcome

\* C12, amended: the two functions always end the same way with the same
\* vector; and when no element of the input is usize::MAX both return,
\* the length is unchanged, and each element is one more than before (at
\* every point of the loop exactly the elements already visited are).
C12_Add1WhenNoMax ==
    call = "add_1" =>
        /\ Add1SameOutcome
        /\ (\A j \in 1..Len(v_in) : v_in[j] # UsizeMax) =>
              /\ a1.pc # "panic" /\ d1.pc # "panic"
              /\ IncrementedUpTo(a1.v, a1.k)
              /\ IncrementedUpTo(d1.v, d1.k)
              /\ a1.pc = "done" => a1.k = Len(v_in)
              /\ d1.pc = "done" => d1.k = Len(v_in)

C12_Witness ==
    /\ call = "add_1"
    /\ a1.pc = "done" /\ d1.pc = "done"
    /\ v_in = <<0, 1, 2>>
    /\ a1.v = <<1, 2, 3>>
    /\ d1.v = a1.v

C14_GetLastLazyVsEager ==
    call = "get_last" =>
        /\ gl3.pc = "done" =>
              IF Len(v_in) = 0
              THEN /\ gl3.ret = Returned(0)
                   /\ Len(gl3.stdout) = 2
                   /\ gl3.stdout[2].text = "Returning 0 instead"
              ELSE /\ gl3.ret = Returned(v_in[Len(v_in)])
                   /\ gl3.stdout = <<>>
        /\ gl1.pc = "done" =>
              /\ Len(gl1.stdout) = 2
              /\ gl1.stdout[1].arg = v_in
              /\ gl1.stdout[2].text = "Returning 0 instead"
        /\ (gl1.pc = "done" /\ gl3.pc = "done") => gl1.ret = gl3.ret

C14_Witness ==
    /\ call = "get_last"
    /\ gl1.pc = "done" /\ gl3.pc = "done"
    /\ Len(v_in) = MaxVecLen
    /\ v_in[Len(v_in)] # 0
    /\ gl1.ret = Returned(v_in[Len(v_in)])
    /\ gl3.ret = gl1.ret
    /\ Len(gl1.stdout) = 2
    /\ gl3.stdout = <<>>

=============================================================================
